---- MODULE Spec2Model ----
(***************************************************************************)
(* A model of tyatharva/getdata: the retrying orchestrator process_day of  *)
(* get_data.py with the filesystem tree under ./data it works on, the      *)
(* /process and /cleanup handlers of process_service.py with their         *)
(* processing_history, and the pure parts of the pipeline (provider        *)
(* selection, MRMS normalisation, surface dewpoint).                       *)
(***************************************************************************)
EXTENDS Integers, Sequences, FiniteSets, TLC

(***************************************************************************)
(* Bounds of the model.                                                    *)
(***************************************************************************)
\* direct callers pass max_attempts in 1..MaxAttemptsArg when calls run one at a time
MaxAttemptsArg == 3
\* and in 1..MaxAttemptsConc when they run concurrently
MaxAttemptsConc == 2
\* calls (direct or through /process) started in one behaviour, one at a time
MaxCalls == 3
\* calls started in one behaviour when they run concurrently
MaxCallsConc == 2
\* /cleanup requests and clock advances in one behaviour
MaxMaint == 2
\* the entries processing_history keeps: `len(processing_history) > 50` in the
\* code, scaled down so that the eviction happens within MaxCalls requests
HistoryLimit == 1

\* reference instants given to get_mrms: 0..MaxTime half hours
MaxTime == 7
\* source values of a reflectivity cell: within Margin of either end of the
\* setrtomiss range
Margin == 2
\* surface temperatures and dewpoints of a cell: within Spread and 2 * Spread
\* tenths of a kelvin of 280 K
Spread == 5

(***************************************************************************)
(* Program constants.                                                      *)
(***************************************************************************)
\* process_day(date, lake, max_attempts=3): what /process gets
DefaultMaxAttempts == 3
\* cleanup(): data.get('older_than_days', 7)
DefaultOlderThanDays == 7

\* cdo -setrtomiss,-1000,0 and cdo setmisstoc,0
SetrtomissMin == -1000
SetrtomissMax == 0
Setmisstoc == 0
\* merge: xr.where(ICEC_surface == 0, 0.1, 0.5), in tenths of a kelvin
OffsetIceFree == 1
OffsetIce == 5

\* worker threads of the service / concurrent callers of process_day
Procs == {"w1", "w2"}

None == "none"

(***************************************************************************)
(* Time.  An instant is a number of half hours since 2020-10-14T22:00Z,    *)
(* so that two instants of one hour exist.  Cutover is                     *)
(* datetime(2020, 10, 15, tzinfo=timezone.utc) on that scale.              *)
(***************************************************************************)
Cutover == 4

\* the hour an instant lies in (strftime("%Y-%m-%d %H:00") drops the minutes)
HourOf(t) == t \div 2

\* date strings a /process request carries, and datetime.fromisoformat of each
DateStrs == {"2020-10-14T23:00:00Z", "2020-10-14T23:30:00Z", "2020-10-15T00:00:00Z"}

fromisoformat(s) ==
    CASE s = "2020-10-14T23:00:00Z" -> 2
      [] s = "2020-10-14T23:30:00Z" -> 3
      [] s = "2020-10-15T00:00:00Z" -> 4

\* date.strftime('%Y%m%d_%H') of an instant
strftime_Ymd_H(t) ==
    CASE HourOf(t) = 0 -> "20201014_22"
      [] HourOf(t) = 1 -> "20201014_23"
      [] HourOf(t) = 2 -> "20201015_00"
      [] HourOf(t) = 3 -> "20201015_01"

(***************************************************************************)
(* Names and paths.  A name is a sequence of tokens, so that Python's      *)
(* substring test `dirname in name` is a test on sequences; a path is the  *)
(* sequence of names below ./data.                                         *)
(***************************************************************************)
\* f"{date.strftime('%Y%m%d_%H')}{lake}"
Dirname(date, lake) == <<strftime_Ymd_H(date)>> \o lake

ORIGINAL == <<"original">>
HRRR == <<"hrrr">>
MRMS == <<"mrms">>
HRRR_NC == <<"hrrr.nc">>
MRMS_NC == <<"mrms.nc">>
RAW_MRMS == <<"QPE_past.grib2.gz">>
RAW_HRRR == <<"hrrr.grib2">>

\* ./data/original/{dirname}/
WorkDir(d) == <<ORIGINAL, d>>
\* ./data/{dirname}
OutDir(d) == <<d>>
\* ./data/{dirname}/{dirname}_in.nc
OutFile(d) == <<d, d \o <<"_in.nc">>>>

\* Python's `a in b` on strings
Contains(b, a) ==
    \E i \in 1..(Len(b) - Len(a) + 1) : SubSeq(b, i, i + Len(a) - 1) = a

IsPrefix(p, q) == Len(p) <= Len(q) /\ SubSeq(q, 1, Len(p)) = p

DirNode == [kind |-> "dir", data |-> None]
FileNode(x) == [kind |-> "file", data |-> x]

IsDir(f, p) == p \in DOMAIN f /\ f[p].kind = "dir"
IsFile(f, p) == p \in DOMAIN f /\ f[p].kind = "file"

Restrict(f, S) == [q \in S |-> f[q]]

\* shutil.rmtree(p, ignore_errors=True)
rmtree(f, p) == Restrict(f, {q \in DOMAIN f : ~IsPrefix(p, q)})

\* os.makedirs(p, exist_ok=True)
makedirs(f, p) ==
    LET new == {SubSeq(p, 1, i) : i \in 1..Len(p)} \ DOMAIN f
    IN  [q \in DOMAIN f \cup new |-> IF q \in DOMAIN f THEN f[q] ELSE DirNode]

\* open(p, 'wb').write(x): the caller checks that the parent directory exists
writefile(f, p, x) ==
    [q \in DOMAIN f \cup {p} |-> IF q = p THEN FileNode(x) ELSE f[q]]

ParentExists(f, p) == IsDir(f, SubSeq(p, 1, Len(p) - 1))

\* the directories right below ./data
TopDirs(f) == {p \in DOMAIN f : Len(p) = 1 /\ f[p].kind = "dir"}

Children(f, p) == {q \in DOMAIN f : Len(q) = Len(p) + 1 /\ IsPrefix(p, q)}

(***************************************************************************)
(* Directory ages, as os.path.getmtime sees them: 0 is "modified now",     *)
(* 1 is "older than 0 days and at most 7", 2 is "older than 7 days".  A    *)
(* directory's mtime is reset when an entry is added to or removed from    *)
(* it.                                                                     *)
(***************************************************************************)
Touch(a, f, g) ==
    [p \in TopDirs(g) |->
        IF p \in DOMAIN a /\ Children(f, p) = Children(g, p) THEN a[p] ELSE 0]

VARIABLES
    fs,                 \* the tree below ./data: path -> node
    age,                \* days since each directory right below ./data was modified
    processing_history, \* the service's cache: cache keys, oldest processed_at first
    pc,                 \* where each worker is
    call,               \* the arguments of each worker's call
    attempt,            \* process_day's attempt counter
    result,             \* how process_day ended
    response,           \* what the /process handler answered
    ncalls,             \* calls started so far
    nmaint,             \* cleanups and clock advances so far
    norm,               \* one run of get_mrms: its inputs and what it made
    cell,               \* one grid cell of hrrr.nc in merge
    cdo_local,          \* process_day's local name cdo: the handle bound to it, if any
    cdo_used            \* the handles the cdo operations of each worker's attempt ran on

vars == <<fs, age, processing_history, pc, call, attempt, result, response, ncalls,
          nmaint, norm, cell, cdo_local, cdo_used>>

\* a Cdo object, named by the call and the attempt that constructed it
Handle(by, n) == [by |-> by, attempt |-> n]

\* line 2: the handle the module binds to its global name cdo when it is imported
cdo == Handle(0, 0)

\* what Output gives when there is no output file
NoOutput == [by |-> 0, attempt |-> 0, complete |-> FALSE]

\* id numbers the calls; output_at_entry and cached_at_entry record what was on
\* disk and in the cache when the call arrived
NoCall == [id |-> 0, date_str |-> None, date |-> 0, lake |-> <<>>,
           max_attempts |-> 0, via |-> None,
           output_at_entry |-> NoOutput, cached_at_entry |-> FALSE]

dirname(p) == Dirname(call[p].date, call[p].lake)

\* the data of the output file of `d`: the call and the attempt that wrote it
Output(f, d) == IF IsFile(f, OutFile(d)) THEN f[OutFile(d)].data ELSE NoOutput

NoNorm == [htime |-> 0, shsr |-> [miss |-> TRUE, v |-> 0], provider |-> None,
           files |-> {}]
NoCell == [TMP_surface |-> 0, DPT_2m |-> 0, ICEC_surface |-> 0,
           DPT_surface |-> [miss |-> TRUE, v |-> 0]]

\* the service as it starts: ./data and ./data/original exist, nothing else
InitOrch ==
    /\ fs = makedirs(<<>>, <<ORIGINAL>>)
    /\ age = [p \in {<<ORIGINAL>>} |-> 0]
    /\ processing_history = <<>>
    /\ pc = [p \in Procs |-> "idle"]
    /\ call = [p \in Procs |-> NoCall]
    /\ attempt = [p \in Procs |-> 0]
    /\ result = [p \in Procs |-> None]
    /\ response = [p \in Procs |-> None]
    /\ ncalls = 0
    /\ nmaint = 0
    /\ cdo_local = [p \in Procs |-> {}]
    /\ cdo_used = [p \in Procs |-> {}]

Init ==
    /\ InitOrch
    /\ norm = NoNorm
    /\ cell = NoCell

(***************************************************************************)
(* get_data.py                                                             *)
(***************************************************************************)
\* a guard that lists ./data instead of walking it
should_skip_listdir(f, d) == \E p \in DOMAIN f : Len(p) = 1 /\ Contains(p[1], d)

\* should_skip(dirname): os.walk("./data") over every directory and file name
should_skip(f, d) == \E p \in DOMAIN f : Contains(p[Len(p)], d)

\* create_dir(folder_name)
create_dir(f, d) ==
    makedirs(makedirs(makedirs(f, WorkDir(d)), WorkDir(d) \o <<HRRR>>),
             WorkDir(d) \o <<MRMS>>)

\* get_mrms(dirname, htime, lake): the acquirer the date selects
\* the cutover instant itself still sent to the legacy archive
get_mrms_inclusive(htime) ==
    IF htime <= Cutover THEN "get_mrms_iowa" ELSE "get_mrms_aws"

get_mrms(htime) == IF htime < Cutover THEN "get_mrms_iowa" ELSE "get_mrms_aws"

\* an except branch without the rmtree of the output directory
except_cleanup_keeps_output(f, d) == rmtree(f, WorkDir(d))

\* an except branch without the rmtree of the working tree
except_cleanup_keeps_work(f, d) == rmtree(f, OutDir(d))

\* the except branch of process_day: both rmtree calls
except_cleanup(f, d) == rmtree(rmtree(f, WorkDir(d)), OutDir(d))

\* the last statement of the try block: rmtree of the working tree
success_cleanup(f, d) == rmtree(f, WorkDir(d))

\* merge(dirname, lake): makes the output directory, writes the output file
merge(f, d, x) == writefile(makedirs(f, OutDir(d)), OutFile(d), x)

\* the requests the model draws: two date strings of one hour, a lake code that
\* is a prefix of another, and an hour past the cutover
Requests ==
    {<<"2020-10-14T23:00:00Z", <<"m">>>>, <<"2020-10-14T23:30:00Z", <<"m">>>>,
     <<"2020-10-14T23:00:00Z", <<"m", "i">>>>, <<"2020-10-15T00:00:00Z", <<"m">>>>}

\* what concurrent direct callers pass: one date per hour
RequestsConc == {r \in Requests : r[1] # "2020-10-14T23:30:00Z"}

\* a worker is free before its first call, when process_day has returned or raised
\* to a direct caller, and when the handler has responded
Free(p) ==
    \/ pc[p] = "idle"
    \/ pc[p] \in {"returned", "raised"} /\ call[p].via = "direct"
    \/ pc[p] = "responded"

\* a call goes to the first free worker (the workers are interchangeable)
FirstFree(p) == Free(p) /\ (p = "w1" \/ ~Free("w1"))

\* a caller invokes process_day(date, lake, max_attempts) directly
CallDirect(p, reqs, maxarg, maxcalls) ==
    /\ FirstFree(p)
    /\ ncalls < maxcalls
    /\ \E r \in reqs, m \in 1..maxarg :
          call' = [call EXCEPT ![p] =
                      [id |-> ncalls + 1, date_str |-> None,
                       date |-> fromisoformat(r[1]), lake |-> r[2],
                       max_attempts |-> m, via |-> "direct",
                       output_at_entry |-> Output(fs, Dirname(fromisoformat(r[1]), r[2])),
                       cached_at_entry |-> FALSE]]
    /\ ncalls' = ncalls + 1
    /\ attempt' = [attempt EXCEPT ![p] = 1]
    /\ pc' = [pc EXCEPT ![p] = "should_skip"]
    /\ result' = [result EXCEPT ![p] = None]
    /\ response' = [response EXCEPT ![p] = None]
    /\ cdo_local' = [cdo_local EXCEPT ![p] = {}]
    /\ cdo_used' = [cdo_used EXCEPT ![p] = {}]
    /\ UNCHANGED <<fs, age, processing_history, nmaint, norm, cell>>

\* process_day, line 265: the duplicate guard, outside the try block
ShouldSkip(p) ==
    /\ pc[p] = "should_skip"
    /\ IF should_skip(fs, dirname(p))
         THEN /\ pc' = [pc EXCEPT ![p] = "raised"]
              /\ result' = [result EXCEPT ![p] = "FileExistsError"]
         ELSE /\ pc' = [pc EXCEPT ![p] = "create_dir"]
              /\ result' = result
    /\ UNCHANGED <<fs, age, processing_history, call, attempt, response, ncalls, nmaint, norm, cell, cdo_local, cdo_used>>

\* lines 268-269: Cdo() bound to the local name cdo, and create_dir; Cdo() may raise
CreateDir(p) ==
    /\ pc[p] = "create_dir"
    /\ \/ /\ fs' = create_dir(fs, dirname(p))
          /\ pc' = [pc EXCEPT ![p] = "get_mrms"]
          /\ cdo_local' = [cdo_local EXCEPT ![p] = {Handle(call[p].id, attempt[p])}]
       \/ /\ fs' = fs
          /\ pc' = [pc EXCEPT ![p] = "except"]
          /\ cdo_local' = cdo_local
    /\ cdo_used' = [cdo_used EXCEPT ![p] = {}]
    /\ age' = Touch(age, fs, fs')
    /\ UNCHANGED <<processing_history, call, attempt, result, response, ncalls, nmaint, norm, cell>>

\* line 271: get_mrms; it writes below {working tree}/mrms, which must exist
GetMrms(p) ==
    /\ pc[p] = "get_mrms"
    /\ LET w == WorkDir(dirname(p))
           raw == w \o <<MRMS, RAW_MRMS>>
       IN  \/ /\ IsDir(fs, w \o <<MRMS>>)
              /\ fs' = writefile(writefile(fs, raw, None), w \o <<MRMS_NC>>,
                                 get_mrms(call[p].date))
              /\ pc' = [pc EXCEPT ![p] = "get_hrrr"]
              /\ cdo_used' = [cdo_used EXCEPT ![p] = @ \cup {cdo}]
           \/ /\ IsDir(fs, w \o <<MRMS>>)
              /\ fs' = writefile(fs, raw, None)
              /\ pc' = [pc EXCEPT ![p] = "except"]
              /\ cdo_used' = cdo_used
           \/ /\ fs' = fs
              /\ pc' = [pc EXCEPT ![p] = "except"]
              /\ cdo_used' = cdo_used
    /\ age' = Touch(age, fs, fs')
    /\ UNCHANGED <<processing_history, call, attempt, result, response, ncalls, nmaint, norm, cell, cdo_local>>

\* line 274: get_hrrr; the download creates its save_dir
GetHrrr(p) ==
    /\ pc[p] = "get_hrrr"
    /\ LET w == WorkDir(dirname(p))
           got == writefile(makedirs(fs, w \o <<HRRR>>), w \o <<HRRR, RAW_HRRR>>, None)
       IN  \/ /\ fs' = writefile(got, w \o <<HRRR_NC>>, None)
              /\ pc' = [pc EXCEPT ![p] = "merge"]
              /\ cdo_used' = [cdo_used EXCEPT ![p] = @ \cup {cdo}]
           \/ /\ fs' = got
              /\ pc' = [pc EXCEPT ![p] = "except"]
              /\ cdo_used' = cdo_used
           \/ /\ fs' = fs
              /\ pc' = [pc EXCEPT ![p] = "except"]
              /\ cdo_used' = cdo_used
    /\ age' = Touch(age, fs, fs')
    /\ UNCHANGED <<processing_history, call, attempt, result, response, ncalls, nmaint, norm, cell, cdo_local>>

\* lines 277-280: merge (it reads hrrr.nc and mrms.nc), then rmtree of the
\* working tree and break
Merge(p) ==
    /\ pc[p] = "merge"
    /\ LET d == dirname(p)
           w == WorkDir(d)
           ready == IsFile(fs, w \o <<HRRR_NC>>) /\ IsFile(fs, w \o <<MRMS_NC>>)
           out == [by |-> call[p].id, attempt |-> attempt[p], complete |-> TRUE]
       IN  \/ /\ ready
              /\ fs' = success_cleanup(merge(fs, d, out), d)
              /\ pc' = [pc EXCEPT ![p] = "returned"]
              /\ result' = [result EXCEPT ![p] = "Done"]
           \/ /\ ready
              /\ fs' = merge(fs, d, [out EXCEPT !.complete = FALSE])
              /\ pc' = [pc EXCEPT ![p] = "except"]
              /\ result' = result
           \/ /\ ready
              /\ fs' = makedirs(fs, OutDir(d))
              /\ pc' = [pc EXCEPT ![p] = "except"]
              /\ result' = result
           \/ /\ fs' = fs
              /\ pc' = [pc EXCEPT ![p] = "except"]
              /\ result' = result
    /\ age' = Touch(age, fs, fs')
    /\ UNCHANGED <<processing_history, call, attempt, response, ncalls, nmaint, norm, cell, cdo_local, cdo_used>>

\* lines 281-286: the except branch; past max_attempts the loop ends and
\* process_day returns None
Except(p) ==
    /\ pc[p] = "except"
    /\ fs' = except_cleanup(fs, dirname(p))
    /\ age' = Touch(age, fs, fs')
    /\ attempt' = [attempt EXCEPT ![p] = attempt[p] + 1]
    /\ IF attempt[p] + 1 > call[p].max_attempts
         THEN /\ pc' = [pc EXCEPT ![p] = "returned"]
              /\ result' = [result EXCEPT ![p] = "PermanentlyFailed"]
         ELSE /\ pc' = [pc EXCEPT ![p] = "create_dir"]
              /\ result' = result
    /\ UNCHANGED <<processing_history, call, response, ncalls, nmaint, norm, cell, cdo_local, cdo_used>>

ProcessDay(p) ==
    \/ ShouldSkip(p)
    \/ CreateDir(p)
    \/ GetMrms(p)
    \/ GetHrrr(p)
    \/ Merge(p)
    \/ Except(p)

(***************************************************************************)
(* process_service.py                                                      *)
(***************************************************************************)
\* cache_key = f"{date_str}_{lake}"
CacheKey(date_str, lake) == <<date_str, lake>>

\* a cache check that never hits
cache_hit_never(h, k) == FALSE

\* `cache_key in processing_history`
cache_hit(h, k) == \E i \in 1..Len(h) : h[i] = k

Without(h, k) == SelectSeq(h, LAMBDA x : x # k)

\* processing_history[cache_key] = {...}, then the eviction of the entry with
\* the oldest processed_at while there are more than the limit
record_history(h, k) ==
    LET h1 == Append(Without(h, k), k)
    IN  IF Len(h1) > HistoryLimit THEN Tail(h1) ELSE h1

\* clear_processing_history()
clear_processing_history(h) == <<>>

Success(d, cached) ==
    [status |-> 200, success |-> TRUE, file_path |-> OutFile(d), cached |-> cached,
     error |-> None]
Error500(e) ==
    [status |-> 500, success |-> FALSE, file_path |-> <<>>, cached |-> FALSE,
     error |-> e]

\* POST /process, lines 44-81: parse, the cache check, and the call of process_day
Process(p) ==
    /\ FirstFree(p)
    /\ ncalls < MaxCalls
    /\ ncalls' = ncalls + 1
    /\ \E r \in Requests :
          LET date_obj == fromisoformat(r[1])
              d == Dirname(date_obj, r[2])
              k == CacheKey(r[1], r[2])
          IN  /\ call' = [call EXCEPT ![p] =
                            [id |-> ncalls + 1, date_str |-> r[1], date |-> date_obj,
                             lake |-> r[2], max_attempts |-> DefaultMaxAttempts,
                             via |-> "process",
                             output_at_entry |-> Output(fs, d),
                             cached_at_entry |->
                                 k \in {processing_history[i] :
                                           i \in 1..Len(processing_history)}]]
              /\ IF cache_hit(processing_history, k)
                   THEN /\ pc' = [pc EXCEPT ![p] = "responded"]
                        /\ response' = [response EXCEPT ![p] = Success(d, TRUE)]
                        /\ attempt' = [attempt EXCEPT ![p] = 0]
                   ELSE /\ pc' = [pc EXCEPT ![p] = "should_skip"]
                        /\ response' = [response EXCEPT ![p] = None]
                        /\ attempt' = [attempt EXCEPT ![p] = 1]
    /\ result' = [result EXCEPT ![p] = None]
    /\ cdo_local' = [cdo_local EXCEPT ![p] = {}]
    /\ cdo_used' = [cdo_used EXCEPT ![p] = {}]
    /\ UNCHANGED <<fs, age, processing_history, nmaint, norm, cell>>

\* lines 83-109: process_day returned; the file check, the history, the answer
ProcessVerify(p) ==
    /\ call[p].via = "process"
    /\ pc[p] = "returned"
    /\ pc' = [pc EXCEPT ![p] = "responded"]
    /\ IF IsFile(fs, OutFile(dirname(p)))
         THEN /\ processing_history' =
                    record_history(processing_history,
                                   CacheKey(call[p].date_str, call[p].lake))
              /\ response' = [response EXCEPT ![p] = Success(dirname(p), FALSE)]
         ELSE /\ processing_history' = processing_history
              /\ response' = [response EXCEPT ![p] = Error500("FileNotFoundError")]
    /\ UNCHANGED <<fs, age, call, attempt, result, ncalls, nmaint, norm, cell, cdo_local, cdo_used>>

\* lines 111-116: process_day raised; the handler answers 500 with the message
ProcessError(p) ==
    /\ call[p].via = "process"
    /\ pc[p] = "raised"
    /\ pc' = [pc EXCEPT ![p] = "responded"]
    /\ response' = [response EXCEPT ![p] = Error500(result[p])]
    /\ UNCHANGED <<fs, age, processing_history, call, attempt, result, ncalls, nmaint, norm, cell, cdo_local, cdo_used>>

\* days a directory can be old: past the default retention every age is alike
MaxAge == DefaultOlderThanDays + 1

\* older_than_days values a /cleanup request carries
OlderThanDays == {0, DefaultOlderThanDays}

\* POST /cleanup: rmtree of every directory right below ./data older than
\* older_than_days, then clear_processing_history()
Cleanup ==
    /\ nmaint < MaxMaint
    /\ nmaint' = nmaint + 1
    /\ \E older_than_days \in OlderThanDays :
          LET old == {q \in TopDirs(fs) : age[q] > older_than_days}
          IN  /\ fs' = Restrict(fs, {q \in DOMAIN fs :
                                        \A o \in old : ~IsPrefix(o, q)})
              /\ age' = Restrict(age, TopDirs(fs) \ old)
    /\ processing_history' = clear_processing_history(processing_history)
    /\ UNCHANGED <<pc, call, attempt, result, response, ncalls, norm, cell, cdo_local, cdo_used>>

\* time passes: a day, or the default retention
Tick ==
    /\ nmaint < MaxMaint
    /\ nmaint' = nmaint + 1
    /\ \E days \in {1, DefaultOlderThanDays} :
          age' = [q \in DOMAIN age |->
                    IF age[q] + days > MaxAge THEN MaxAge ELSE age[q] + days]
    /\ UNCHANGED <<fs, processing_history, pc, call, attempt, result, response, ncalls, norm, cell, cdo_local, cdo_used>>

(***************************************************************************)
(* get_mrms_iowa and get_mrms_aws: what each fetches and how it normalises  *)
(* it.  A file is one product: the hour of the URL it was fetched from, the  *)
(* remote product and the variable name wgrib2 gives, the name after         *)
(* -chname, the time axis after settaxis, and (for the reflectivity) one     *)
(* grid cell, which is a value or missing.                                   *)
(***************************************************************************)
Missing == [miss |-> TRUE, v |-> 0]
Value(x) == [miss |-> FALSE, v |-> x]

\* cdo -setrtomiss,lo,hi
setrtomiss(lo, hi, c) == IF ~c.miss /\ lo <= c.v /\ c.v <= hi THEN Missing ELSE c

\* cdo setmisstoc,k
setmisstoc(k, c) == IF c.miss THEN Value(k) ELSE c

\* the else branch of the loop, lines 141-142 and 193-194
normalize_shsr(c) ==
    setmisstoc(Setmisstoc, setrtomiss(SetrtomissMin, SetrtomissMax, c))

\* DATES = pd.date_range(start=htime.strftime("%Y-%m-%d %H:00"), periods=2, freq="1h")
DATES(htime) == <<HourOf(htime), HourOf(htime) + 1>>

\* QPE_target stamped with the hour it was fetched for
target_taxis_fetched(htime) == DATES(htime)[2]

\* the date settaxis is given for QPE_target, lines 139 and 191: DATES[0]
target_taxis(htime) == DATES(htime)[1]

Product(fetched, remote, native, name, taxis, c) ==
    [fetched |-> fetched, remote |-> remote, native |-> native, name |-> name,
     taxis |-> taxis, cell |-> c]

\* get_mrms_iowa(dirname, htime, lake), lines 97-145
get_mrms_iowa(htime, shsr) ==
    LET D == DATES(htime)
    IN  {Product(D[1], "GaugeCorr_QPE_01H", "GaugeCorrQPE01H_0mabovemeansealevel",
                 "QPE_past", D[1], Missing),
         Product(D[1], "SeamlessHSR", "SeamlessHSR_0mabovemeansealevel",
                 "SHSR_mrms", D[1], normalize_shsr(shsr)),
         Product(D[2], "GaugeCorr_QPE_01H", "GaugeCorrQPE01H_0mabovemeansealevel",
                 "QPE_target", target_taxis(htime), Missing)}

\* get_mrms_aws(dirname, htime, lake), lines 148-197
get_mrms_aws(htime, shsr) ==
    LET D == DATES(htime)
    IN  {Product(D[1], "MultiSensor_QPE_01H_Pass1_00.00", "var209_6_30_0mabovemeansealevel",
                 "QPE_past", D[1], Missing),
         Product(D[1], "SeamlessHSR_00.00", "SeamlessHSR_0mabovemeansealevel",
                 "SHSR_mrms", D[1], normalize_shsr(shsr)),
         Product(D[2], "MultiSensor_QPE_01H_Pass2_00.00", "var209_6_37_0mabovemeansealevel",
                 "QPE_target", target_taxis(htime), Missing)}

\* the source values a reflectivity cell takes
Cells ==
    {Missing} \cup
    {Value(x) : x \in ((SetrtomissMin - Margin)..(SetrtomissMin + Margin))
                         \cup ((SetrtomissMax - Margin)..(SetrtomissMax + Margin))}

\* a get_mrms call about to run, for every reference instant and source cell
InitMrms ==
    /\ InitOrch
    /\ cell = NoCell
    /\ \E t \in 0..MaxTime, c \in Cells :
          norm = [htime |-> t, shsr |-> c, provider |-> None, files |-> {}]

\* line 201: the legacy archive
GetMrmsIowa ==
    /\ norm.provider = None
    /\ get_mrms(norm.htime) = "get_mrms_iowa"
    /\ norm' = [norm EXCEPT !.provider = "get_mrms_iowa",
                            !.files = get_mrms_iowa(norm.htime, norm.shsr)]
    /\ UNCHANGED <<fs, age, processing_history, pc, call, attempt, result, response,
                   ncalls, nmaint, cell, cdo_local, cdo_used>>

\* line 202: the cloud store
GetMrmsAws ==
    /\ norm.provider = None
    /\ get_mrms(norm.htime) = "get_mrms_aws"
    /\ norm' = [norm EXCEPT !.provider = "get_mrms_aws",
                            !.files = get_mrms_aws(norm.htime, norm.shsr)]
    /\ UNCHANGED <<fs, age, processing_history, pc, call, attempt, result, response,
                   ncalls, nmaint, cell, cdo_local, cdo_used>>

NextMrms == GetMrmsIowa \/ GetMrmsAws

SpecMrms == InitMrms /\ [][NextMrms]_vars

(***************************************************************************)
(* merge: the surface dewpoint of one grid cell, lines 217-219, in tenths   *)
(* of a kelvin.                                                              *)
(***************************************************************************)
\* offset = xr.where(ds1['ICEC_surface'] == 0, 0.1, 0.5)
offset(icec) == IF icec = 0 THEN OffsetIceFree ELSE OffsetIce

\* line 218
DPT_estimate(tmp, dpt2m, icec) == IF icec = 0 THEN tmp - offset(icec) ELSE dpt2m

\* line 219 left out
DPT_surface_unclamped(tmp, dpt2m, icec) == DPT_estimate(tmp, dpt2m, icec)

\* line 219
DPT_surface(tmp, dpt2m, icec) ==
    IF DPT_estimate(tmp, dpt2m, icec) > tmp - offset(icec)
      THEN tmp - offset(icec)
      ELSE DPT_estimate(tmp, dpt2m, icec)

\* 280 K in tenths
T280 == 280 * 10

\* ice cover fractions, in tenths
IceCover == {0, 5, 10}

InitDewpoint ==
    /\ InitOrch
    /\ norm = NoNorm
    /\ \E t \in (T280 - Spread)..(T280 + Spread),
          d \in (T280 - 2 * Spread)..(T280 + 2 * Spread), i \in IceCover :
          cell = [TMP_surface |-> t, DPT_2m |-> d, ICEC_surface |-> i,
                  DPT_surface |-> Missing]

DeriveDewpoint ==
    /\ cell.DPT_surface = Missing
    /\ cell' = [cell EXCEPT !.DPT_surface =
                   Value(DPT_surface(cell.TMP_surface, cell.DPT_2m, cell.ICEC_surface))]
    /\ UNCHANGED <<fs, age, processing_history, pc, call, attempt, result, response,
                   ncalls, nmaint, norm, cdo_local, cdo_used>>

NextDewpoint == DeriveDewpoint

SpecDewpoint == InitDewpoint /\ [][NextDewpoint]_vars

(***************************************************************************)
(* Specifications                                                          *)
(***************************************************************************)
AllFree == \A p \in Procs : Free(p)

Running(p) ==
    \/ ProcessDay(p)
    \/ ProcessVerify(p)
    \/ ProcessError(p)

\* direct calls of process_day, one at a time
NextSerial ==
    \/ \E p \in Procs : AllFree /\ CallDirect(p, Requests, MaxAttemptsArg, MaxCalls)
    \/ \E p \in Procs : ProcessDay(p)

\* a call that has started runs on: every step of it returns or raises
SpecSerial == Init /\ [][NextSerial]_vars /\ WF_vars(\E p \in Procs : ProcessDay(p))

\* the service: /process and /cleanup requests handled one at a time, and the clock
NextService ==
    \/ \E p \in Procs : AllFree /\ Process(p)
    \/ \E p \in Procs : Running(p)
    \/ AllFree /\ Cleanup
    \/ AllFree /\ Tick

SpecService == Init /\ [][NextService]_vars /\ WF_vars(\E p \in Procs : Running(p))

\* process_day calls dispatched concurrently
NextConc ==
    \E p \in Procs :
        \/ CallDirect(p, RequestsConc, MaxAttemptsConc, MaxCallsConc)
        \/ ProcessDay(p)

SpecConc == Init /\ [][NextConc]_vars

\* process_day calls dispatched concurrently while /cleanup requests are
\* served and the clock runs
NextShared ==
    \/ \E p \in Procs :
          \/ CallDirect(p, RequestsConc, MaxAttemptsConc, MaxCallsConc)
          \/ ProcessDay(p)
    \/ Cleanup
    \/ Tick

SpecShared == Init /\ [][NextShared]_vars

(***************************************************************************)
(* Claims                                                                  *)
(***************************************************************************)
InAttempt(p) == pc[p] \in {"create_dir", "get_mrms", "get_hrrr", "merge", "except"}

\* everything on disk below the working tree or the output directory of `d`
Artifacts(f, d) == {q \in DOMAIN f : IsPrefix(WorkDir(d), q) \/ IsPrefix(OutDir(d), q)}

\* some file or directory below ./data has a name containing `d`
NameContaining(f, d) == \E q \in DOMAIN f : Contains(q[Len(q)], d)

Terminated(p) == pc[p] \in {"returned", "raised"}

\* C1: a process_day call that passes the duplicate guard makes at most
\* max_attempts attempts and terminates; when it has returned, either it is
\* Done, the complete output file exists and the working tree is gone, or it is
\* PermanentlyFailed after exactly max_attempts attempts and neither the output
\* file, the output directory nor the working tree exists; nothing else is left.
C1_TerminalState ==
    \A p \in Procs :
        /\ InAttempt(p) => attempt[p] >= 1 /\ attempt[p] <= call[p].max_attempts
        /\ pc[p] = "returned" =>
              \/ /\ result[p] = "Done"
                 /\ attempt[p] <= call[p].max_attempts
                 /\ IsFile(fs, OutFile(dirname(p)))
                 /\ fs[OutFile(dirname(p))].data.complete
                 /\ WorkDir(dirname(p)) \notin DOMAIN fs
                 /\ Artifacts(fs, dirname(p)) = {OutDir(dirname(p)), OutFile(dirname(p))}
              \/ /\ result[p] = "PermanentlyFailed"
                 /\ attempt[p] = call[p].max_attempts + 1
                 /\ Artifacts(fs, dirname(p)) = {}

C1_Terminates ==
    /\ []C1_TerminalState
    /\ \A p \in Procs : (pc[p] = "should_skip") ~> Terminated(p)

\* C1's case: a call with max_attempts = 3 has failed three times and returned
C1_Witness ==
    \E p \in Procs :
        /\ pc[p] = "returned"
        /\ result[p] = "PermanentlyFailed"
        /\ call[p].max_attempts = 3
        /\ attempt[p] = 4

\* C2: when some file or directory below ./data has a name containing the
\* call's identity key at the entry check, the step of the check raises the
\* conflict error, starts no attempt and changes nothing on disk; and a call
\* that has raised takes no further step (it is not retried).
C2_ConflictAborts ==
    [][\A p \in Procs :
          /\ (pc[p] = "should_skip" /\ pc'[p] # pc[p]
                /\ NameContaining(fs, dirname(p)))
             => /\ pc'[p] = "raised"
                /\ result'[p] = "FileExistsError"
                /\ attempt'[p] = attempt[p]
                /\ fs' = fs
                /\ age' = age
          /\ (pc[p] = "raised" /\ call'[p] = call[p])
             => /\ pc'[p] = "raised"
                /\ result'[p] = result[p]
                /\ attempt'[p] = attempt[p]]_vars

\* C2's case: a call has raised on a key whose complete output, written by an
\* earlier call, was on disk when it was made, and the output is as it was
C2_Witness ==
    \E p \in Procs :
        /\ pc[p] = "raised"
        /\ call[p].output_at_entry.complete
        /\ Output(fs, dirname(p)) = call[p].output_at_entry

\* C3: when calls run one at a time, every attempt starts with no artifact of
\* the key on disk (no working tree, no output directory, no name containing
\* the key), and a call that is Done has left exactly the output file of its
\* last attempt, the one that succeeded: no later attempt was started.
C3_CleanRetry ==
    \A p \in Procs :
        /\ pc[p] = "create_dir" =>
              /\ Artifacts(fs, dirname(p)) = {}
              /\ ~NameContaining(fs, dirname(p))
        /\ (pc[p] = "returned" /\ result[p] = "Done") =>
              /\ Artifacts(fs, dirname(p)) = {OutDir(dirname(p)), OutFile(dirname(p))}
              /\ Output(fs, dirname(p)) =
                    [by |-> call[p].id, attempt |-> attempt[p], complete |-> TRUE]
              /\ attempt[p] <= call[p].max_attempts

\* C3's case: max_attempts = 3, attempt 1 failed, attempt 2 succeeded
C3_Witness ==
    \E p \in Procs :
        /\ pc[p] = "returned"
        /\ result[p] = "Done"
        /\ call[p].max_attempts = 3
        /\ attempt[p] = 2
        /\ Output(fs, dirname(p)).attempt = 2

\* the keys the requests of the model name
Dirnames == {Dirname(fromisoformat(r[1]), r[2]) : r \in Requests}

\* C4: no failure is swallowed: a call that ended with every attempt failed, or
\* with the conflict error, has raised to its direct caller or, through
\* /process, been answered with an error response.
C4_FailureObservable ==
    \A p \in Procs :
        result[p] \in {"PermanentlyFailed", "FileExistsError"} =>
            \/ call[p].via = "direct" /\ pc[p] = "raised"
            \/ call[p].via = "process" /\ pc[p] \in {"returned", "raised"}
            \/ call[p].via = "process" /\ pc[p] = "responded"
                  /\ response[p].status = 500

\* C5: under any interleaving of process_day calls, a complete output file (the
\* call that wrote it is Done in the step that writes it) is never overwritten
\* or deleted by a step of a call.
C5_OutputImmutable ==
    [][\A d \in Dirnames :
          Output(fs, d).complete => Output(fs', d) = Output(fs, d)]_vars

\* worker p answers a /process request in this step
Responds(p) ==
    /\ pc'[p] = "responded"
    /\ pc[p] # "responded" \/ call'[p].id # call[p].id

\* C6 as stated: a /process request that arrives when the complete output of
\* its key is on disk is answered with success, naming the output file, and the
\* output is not derived again.
C6_AlreadyDone ==
    [][\A p \in Procs :
          (Responds(p) /\ call'[p].output_at_entry.complete)
          => /\ response'[p].success
             /\ response'[p].file_path = OutFile(Dirname(call'[p].date, call'[p].lake))
             /\ Output(fs', Dirname(call'[p].date, call'[p].lake))
                   = call'[p].output_at_entry]_vars

\* C6 amended: with requests handled one at a time, a /process request that
\* arrives when the complete output of its key is on disk never has the output
\* derived again or changed; it is answered with success, naming the output
\* file, when its cache key (the date string as sent, and the lake) is in
\* processing_history, and otherwise with a 500 response carrying the conflict
\* error.
C6_CachedOrConflict ==
    [][\A p \in Procs :
          (Responds(p) /\ call'[p].output_at_entry.complete)
          => /\ Output(fs', Dirname(call'[p].date, call'[p].lake))
                   = call'[p].output_at_entry
             /\ IF call'[p].cached_at_entry
                  THEN response'[p] =
                          Success(Dirname(call'[p].date, call'[p].lake), TRUE)
                  ELSE response'[p] = Error500("FileExistsError")]_vars

\* C6's case: after a /cleanup that kept the directory and cleared the cache,
\* a request for a key whose output is on disk has been answered with the error
C6_Witness ==
    \E p \in Procs :
        /\ pc[p] = "responded"
        /\ call[p].output_at_entry.complete
        /\ ~call[p].cached_at_entry
        /\ nmaint > 0
        /\ response[p].status = 500
        /\ Output(fs, dirname(p)) = call[p].output_at_entry

IowaRemotes == {"GaugeCorr_QPE_01H", "SeamlessHSR"}
AwsRemotes == {"MultiSensor_QPE_01H_Pass1_00.00", "SeamlessHSR_00.00",
               "MultiSensor_QPE_01H_Pass2_00.00"}
File(name) == CHOOSE f \in norm.files : f.name = name
Normalized == norm.provider # None
Min(a, b) == IF a <= b THEN a ELSE b

\* C7: get_mrms runs exactly one acquirer; it is the legacy archive
\* (get_mrms_iowa), and every product comes from the legacy archive, iff the
\* reference timestamp is strictly before 2020-10-15T00:00:00Z, and the cloud
\* store (get_mrms_aws) otherwise.  2020-10-14T23:00Z goes to the legacy
\* archive and 2020-10-15T00:00Z to the cloud store.
C7_ProviderSelection ==
    Normalized =>
      /\ norm.provider \in {"get_mrms_iowa", "get_mrms_aws"}
      /\ (norm.provider = "get_mrms_iowa")
            <=> (norm.htime < fromisoformat("2020-10-15T00:00:00Z"))
      /\ (norm.provider = "get_mrms_iowa")
            <=> (\A f \in norm.files : f.remote \in IowaRemotes)
      /\ (norm.provider = "get_mrms_aws")
            <=> (\A f \in norm.files : f.remote \in AwsRemotes)
      /\ (norm.htime = fromisoformat("2020-10-14T23:00:00Z"))
            => (norm.provider = "get_mrms_iowa")
      /\ (norm.htime = fromisoformat("2020-10-15T00:00:00Z"))
            => (norm.provider = "get_mrms_aws")

C7_Witness ==
    /\ norm.provider = "get_mrms_aws"
    /\ norm.htime = fromisoformat("2020-10-15T00:00:00Z")
    /\ \A f \in norm.files : f.remote \in AwsRemotes

\* C8 as stated: after normalization the time axis of QPE_past and of
\* SHSR_mrms is the hour of the timestamp and the time axis of QPE_target is
\* the hour of the timestamp plus one hour.
C8_ValidHour ==
    Normalized =>
      /\ File("QPE_past").taxis = HourOf(norm.htime)
      /\ File("SHSR_mrms").taxis = HourOf(norm.htime)
      /\ File("QPE_target").taxis = HourOf(norm.htime) + 1

\* C8 amended: for both providers all three artifacts, QPE_target included,
\* get the hour of the timestamp as their time axis; QPE_target holds the
\* product fetched for the hour of the timestamp plus one hour.
C8_ReferenceHour ==
    Normalized =>
      /\ {f.name : f \in norm.files} = {"QPE_past", "SHSR_mrms", "QPE_target"}
      /\ \A f \in norm.files : f.taxis = HourOf(norm.htime)
      /\ File("QPE_past").fetched = HourOf(norm.htime)
      /\ File("SHSR_mrms").fetched = HourOf(norm.htime)
      /\ File("QPE_target").fetched = HourOf(norm.htime) + 1

C8_Witness ==
    /\ norm.provider = "get_mrms_iowa"
    /\ File("QPE_target").fetched = HourOf(norm.htime) + 1
    /\ File("QPE_target").taxis = HourOf(norm.htime)

\* C9: after normalization of SHSR_mrms a cell whose source value is at or
\* below the floor 0, however negative, reads exactly 0 and a cell above the
\* floor keeps its value.
C9_FloorRepair ==
    (Normalized /\ ~norm.shsr.miss) =>
      IF norm.shsr.v <= SetrtomissMax
        THEN File("SHSR_mrms").cell = Value(0)
        ELSE File("SHSR_mrms").cell = norm.shsr

\* C10: the derived surface dewpoint of a cell is surface_temp - 0.1 when the
\* ice cover is zero and min(dewpoint_2m, surface_temp - 0.5) when it is not,
\* so it never exceeds surface_temp - offset; ice free, 280 K and 279 K give
\* 279.9 K.
C10_Dewpoint ==
    ~cell.DPT_surface.miss =>
      /\ (cell.ICEC_surface = 0)
            => (cell.DPT_surface.v = cell.TMP_surface - OffsetIceFree)
      /\ (cell.ICEC_surface # 0)
            => (cell.DPT_surface.v = Min(cell.DPT_2m, cell.TMP_surface - OffsetIce))
      /\ cell.DPT_surface.v <= cell.TMP_surface -
            (IF cell.ICEC_surface = 0 THEN OffsetIceFree ELSE OffsetIce)
      /\ (cell.ICEC_surface = 0 /\ cell.TMP_surface = T280 /\ cell.DPT_2m = T280 - 10)
            => (cell.DPT_surface.v = T280 - 1)

C10_Witness ==
    /\ ~cell.DPT_surface.miss
    /\ cell.ICEC_surface = 0
    /\ cell.TMP_surface = T280
    /\ cell.DPT_2m = T280 - 10
    /\ cell.DPT_surface.v = T280 - 1

\* the worker has run create_dir in its current attempt and not yet left it
OwnsWorkDir(p) == pc[p] \in {"get_mrms", "get_hrrr", "merge"}

\* the step is one of worker p's own
StepOf(p) == pc'[p] # pc[p] \/ attempt'[p] # attempt[p]

\* C11: under any interleaving of concurrent process_day calls, duplicates of
\* one identity key included, and /cleanup calls, the working subdirectory
\* data/original/<key> of an in-flight request is deleted only by a step of
\* that request itself.
C11_ExclusiveWorkDir ==
    [][\A p \in Procs :
          (/\ OwnsWorkDir(p)
           /\ IsDir(fs, WorkDir(dirname(p)))
           /\ ~IsDir(fs', WorkDir(dirname(p))))
          => StepOf(p)]_vars

\* C12: each attempt constructs a fresh toolchain handle, every cdo operation
\* (conversion, regridding, time axis, merge) of that attempt runs on the
\* handle constructed for it, and no handle serves two requests.
C12_FreshHandle ==
    \A p \in Procs :
        /\ OwnsWorkDir(p) => cdo_local[p] = {Handle(call[p].id, attempt[p])}
        /\ InAttempt(p) => cdo_used[p] \subseteq cdo_local[p]
        /\ \A q \in Procs \ {p} :
              (InAttempt(p) /\ InAttempt(q)) => cdo_used[p] \cap cdo_used[q] = {}

====
